---- MODULE Spec2Model ----
(***************************************************************************)
(* SmoothGrid terrain encoder of rbx_types (terrain/smooth_grid.rs).       *)
(*                                                                         *)
(* Six specifications share the operators below:                           *)
(*   SpecRun   - Voxel::encode_run_length applied to one voxel and count   *)
(*   SpecVoxel - a Voxel under its constructors, set_occupancy and         *)
(*               set_material                                              *)
(*   SpecCoord - VoxelCoordinates::new and ChunkCoordinates::new           *)
(*   SpecChunk - Chunk::encode, one scanned layer (y) per step             *)
(*   Spec      - SmoothGrid: write_chunk calls with keys built by          *)
(*               ChunkCoordinates::new, then encode calls, one chunk per   *)
(*               step                                                      *)
(*   SpecWide  - the same with keys built by ChunkCoordinates::from_vec3   *)
(*                                                                         *)
(* f32 occupancies are modelled as the dyadic fractions n / OccUnit, which *)
(* f32 represents exactly, as are their products with 255.0, or as NaN.    *)
(* i32 arithmetic keeps its width: a subtraction that overflows panics or  *)
(* wraps, depending on the build.                                          *)
(***************************************************************************)
EXTENDS Integers, Sequences, FiniteSets, TLC

\* const CHUNK_SIZE: i32 = 2i32.pow(5)
CHUNK_SIZE == 32

\* An occupancy of 1.0 is the numerator OccUnit; 0.5 is OccUnit \div 2.
OccUnit == 256

----------------------------------------------------------------------------
(* TerrainGridMaterial and its repr(u8) codes *)

MaterialCode ==
  [ Air |-> 0, Water |-> 1, Grass |-> 2, Slate |-> 3, Concrete |-> 4,
    Brick |-> 5, Sand |-> 6, WoodPlanks |-> 7, Rock |-> 8, Glacier |-> 9,
    Snow |-> 10, Sandstone |-> 11, Mud |-> 12, Basalt |-> 13, Ground |-> 14,
    CrackedLava |-> 15, Asphalt |-> 16, Cobblestone |-> 17, Ice |-> 18,
    LeafyGrass |-> 19, Salt |-> 20, Limestone |-> 21, Pavement |-> 22 ]

TerrainGridMaterial == DOMAIN MaterialCode

----------------------------------------------------------------------------
(* Small integer helpers *)

Min(a, b) == IF a < b THEN a ELSE b
Max(a, b) == IF a > b THEN a ELSE b
Abs(a) == IF a < 0 THEN -a ELSE a

\* i32::clamp / f32::clamp
Clamp(v, lo, hi) == IF v < lo THEN lo ELSE IF v > hi THEN hi ELSE v

\* `as u8` of an integer: keeps the low 8 bits
AsU8(n) == n % 256

\* `flag |= mask` for a single-bit mask
BitOr(flag, mask) == IF (flag \div mask) % 2 = 1 THEN flag ELSE flag + mask

\* bit `mask` of a byte
BitSet(byte, mask) == (byte \div mask) % 2 = 1

----------------------------------------------------------------------------
(* Coordinates: a TerrainVec {x, y, z} is the tuple <<x, y, z>> *)

\* A Vector3 component is the f32 n / VecUnit
VecUnit == 2

\* i32::MAX and i32::MIN
I32_MAX == 2147483647
I32_MIN == -I32_MAX - 1

\* The f32 values that are no finite number: NaN, +infinity, -infinity. They
\* stand where a numerator stands; the finite numerators lie strictly between
\* F32_NEG_INFINITY and F32_INFINITY
NaN == I32_MIN
F32_INFINITY == I32_MAX
F32_NEG_INFINITY == -I32_MAX

\* f32 `as i32`: truncation toward zero, saturating, NaN to 0
F32AsI32(n) ==
  IF n = NaN THEN 0
  ELSE IF n = F32_INFINITY THEN I32_MAX
  ELSE IF n = F32_NEG_INFINITY THEN I32_MIN
  ELSE IF n >= 0 THEN n \div VecUnit ELSE -((-n) \div VecUnit)

\* i32 `-` overflows
SubOverflows(a, b) ==
  \/ b < 0 /\ a > I32_MAX + b
  \/ b > 0 /\ a < I32_MIN + b

\* i32 `-` without overflow checks: the difference modulo 2^32
WrappingSub(a, b) ==
  IF b < 0 /\ a > I32_MAX + b THEN (a + I32_MIN) + (I32_MIN - b)
  ELSE IF b > 0 /\ a < I32_MIN + b THEN (a - I32_MIN) + ((I32_MAX - b) + 1)
  ELSE a - b

\* i32::abs without overflow checks: i32::MIN stays i32::MIN
WrappingAbs(a) == IF a = I32_MIN THEN I32_MIN ELSE Abs(a)

\* TerrainVec::from_vec3
TerrainVec_from_vec3(i) == <<F32AsI32(i[1]), F32AsI32(i[2]), F32AsI32(i[3])>>

\* const VOXEL_MAX: i32 = CHUNK_SIZE - 1
VOXEL_MAX == CHUNK_SIZE - 1

\* Mutant of VoxelCoordinates_new: the upper limit is CHUNK_SIZE
VoxelCoordinates_new_size(x, y, z) ==
  <<Clamp(x, 0, CHUNK_SIZE), Clamp(y, 0, CHUNK_SIZE), Clamp(z, 0, CHUNK_SIZE)>>

\* VoxelCoordinates::new
VoxelCoordinates_new(x, y, z) ==
  <<Clamp(x, 0, VOXEL_MAX), Clamp(y, 0, VOXEL_MAX), Clamp(z, 0, VOXEL_MAX)>>

\* VoxelCoordinates::from_vec3
VoxelCoordinates_from_vec3(i) == TerrainVec_from_vec3(i)

\* const CHUNK_MAX: i32 = 2i32.pow(23) / CHUNK_SIZE
CHUNK_MAX == (2^23) \div CHUNK_SIZE

\* ChunkCoordinates::new
ChunkCoordinates_new(x, y, z) ==
  <<Clamp(x, -CHUNK_MAX, CHUNK_MAX), Clamp(y, -CHUNK_MAX, CHUNK_MAX),
    Clamp(z, -CHUNK_MAX, CHUNK_MAX)>>

\* ChunkCoordinates::from_vec3
ChunkCoordinates_from_vec3(i) == TerrainVec_from_vec3(i)

\* Mutant of TerrainVec_lt: the fields are compared z, then y, then x
TerrainVec_lt_zyx(a, b) ==
  \/ a[3] < b[3]
  \/ a[3] = b[3] /\ a[2] < b[2]
  \/ a[3] = b[3] /\ a[2] = b[2] /\ a[1] < b[1]

\* #[derive(PartialOrd, Ord)] on TerrainVec: x, then y, then z
TerrainVec_lt(a, b) ==
  \/ a[1] < b[1]
  \/ a[1] = b[1] /\ a[2] < b[2]
  \/ a[1] = b[1] /\ a[2] = b[2] /\ a[3] < b[3]

----------------------------------------------------------------------------
(* Voxel *)

MkVoxel(material, solid, water) ==
  [solid_occupancy |-> solid, water_occupancy |-> water, material |-> material]

\* #[derive(Default)]: 0.0, 0.0, Air
Voxel_default == MkVoxel("Air", 0, 0)

\* f32::clamp: NaN stays NaN
F32Clamp(v, lo, hi) == IF v = NaN THEN NaN ELSE Clamp(v, lo, hi)

\* f32 `==` and `>`: false when either side is NaN
F32Eq(a, b) == a # NaN /\ b # NaN /\ a = b
F32Gt(a, b) == a # NaN /\ b # NaN /\ a > b

\* Voxel::set_occupancy
set_occupancy(self, solid_in, water_in) ==
  LET solid == F32Clamp(solid_in, 0, OccUnit)
      water == F32Clamp(water_in, 0, OccUnit)
  IN  IF F32Eq(solid, 0) /\ F32Eq(water, 0)
        THEN MkVoxel("Air", OccUnit, 0)
      ELSE IF (F32Eq(solid, 0) \/ self.material = "Air") /\ F32Gt(water, 0)
        THEN MkVoxel("Water", water, 0)
      ELSE IF F32Eq(solid, OccUnit)
        THEN MkVoxel(self.material, solid, 0)
      ELSE MkVoxel(self.material, solid, water)

\* #[derive(PartialEq)] on Voxel: the three fields, the occupancies as f32
Voxel_eq(a, b) ==
  /\ F32Eq(a.solid_occupancy, b.solid_occupancy)
  /\ F32Eq(a.water_occupancy, b.water_occupancy)
  /\ a.material = b.material

\* Voxel::new
Voxel_new(material, solid) ==
  set_occupancy(MkVoxel(material, 0, 0), solid, 0)

\* Voxel::new_with_water
Voxel_new_with_water(material, solid, water) ==
  set_occupancy(MkVoxel(material, 0, 0), solid, water)

\* Mutant of set_material: the material is replaced and the occupancies are
\* left as they are
set_material_only(self, material) == [self EXCEPT !.material = material]

\* Voxel::set_material
set_material(self, material) ==
  set_occupancy([self EXCEPT !.material = material],
                self.solid_occupancy, self.water_occupancy)

\* (occupancy * 255.0) as u8: truncation toward zero, saturating
Quantize(occ) ==
  IF occ = NaN THEN 0 ELSE Clamp((occ * 255) \div OccUnit, 0, 255)

\* Voxel::get_encode_data
get_encode_data(self) ==
  <<Quantize(self.solid_occupancy), Quantize(self.water_occupancy)>>

\* Mutant of Cycle: the assembled bytes are returned once
Cycle_once(bytes, n) == bytes

\* to_write.into_iter().cycle().take(len * n)
Cycle(bytes, n) ==
  [i \in 1..(Len(bytes) * n) |-> bytes[((i - 1) % Len(bytes)) + 1]]

\* the assert! at the head of encode_run_length
ValidCount(count) == count >= 1 /\ count <= 256

\* Mutant of encode_run_length: a solid byte of 0x00 is stored too
encode_run_length_zero_solid(self, count) ==
  LET enc   == get_encode_data(self)
      solid == enc[1]
      water == enc[2]
      code  == MaterialCode[self.material]
      hasSolid == solid # 255
      hasCount == count > 1 \/ water # 0
      flag1 == IF hasSolid THEN BitOr(code, 64) ELSE code
      flag  == IF hasCount THEN BitOr(flag1, 128) ELSE flag1
      tail1 == IF hasSolid THEN <<solid>> ELSE <<>>
      tail2 == IF ~hasCount THEN <<>>
               ELSE IF water = 0 THEN <<AsU8(count - 1)>>
               ELSE <<0, water>>
      to_write == <<flag>> \o tail1 \o tail2
  IN  IF water # 0 /\ count > 1 THEN Cycle(to_write, count) ELSE to_write

\* Mutant of encode_run_length: the count byte holds count, not count - 1
encode_run_length_count(self, count) ==
  LET enc   == get_encode_data(self)
      solid == enc[1]
      water == enc[2]
      code  == MaterialCode[self.material]
      hasSolid == solid # 255 /\ solid # 0
      hasCount == count > 1 \/ water # 0
      flag1 == IF hasSolid THEN BitOr(code, 64) ELSE code
      flag  == IF hasCount THEN BitOr(flag1, 128) ELSE flag1
      tail1 == IF hasSolid THEN <<solid>> ELSE <<>>
      tail2 == IF ~hasCount THEN <<>>
               ELSE IF water = 0 THEN <<AsU8(count)>>
               ELSE <<0, water>>
      to_write == <<flag>> \o tail1 \o tail2
  IN  IF water # 0 /\ count > 1 THEN Cycle(to_write, count) ELSE to_write

\* Voxel::encode_run_length, for a count the assert! accepts
encode_run_length(self, count) ==
  LET enc   == get_encode_data(self)
      solid == enc[1]
      water == enc[2]
      code  == MaterialCode[self.material]
      hasSolid == solid # 255 /\ solid # 0
      hasCount == count > 1 \/ water # 0
      flag1 == IF hasSolid THEN BitOr(code, 64) ELSE code
      flag  == IF hasCount THEN BitOr(flag1, 128) ELSE flag1
      tail1 == IF hasSolid THEN <<solid>> ELSE <<>>
      tail2 == IF ~hasCount THEN <<>>
               ELSE IF water = 0 THEN <<AsU8(count - 1)>>
               ELSE <<0, water>>
      to_write == <<flag>> \o tail1 \o tail2
  IN  IF water # 0 /\ count > 1 THEN Cycle(to_write, count) ELSE to_write

----------------------------------------------------------------------------
(* Chunk *)

\* Chunk::new_with_base
Chunk_new_with_base(base_material) ==
  [grid |-> <<>>, base_material |-> base_material]

\* Chunk::new
Chunk_new == Chunk_new_with_base("Air")

\* Chunk::write_voxel (HashMap::insert)
write_voxel(chunk, position, voxel) ==
  [chunk EXCEPT !.grid = (position :> voxel) @@ chunk.grid]

\* base_voxel of Chunk::encode
BaseVoxel(chunk) == MkVoxel(chunk.base_material, OccUnit, 0)

\* self.grid.get(&pos_cursor) with the base voxel fallback
GrabVoxel(chunk, pos) ==
  IF pos \in DOMAIN chunk.grid THEN chunk.grid[pos] ELSE BaseVoxel(chunk)

\* Mutant of PosCursor: the y and z loops feed each other's component
PosCursor_swapped(x, y, z) == <<x, z, y>>

\* pos_cursor after the assignments of the three loops: TerrainVec {x, y, z}
PosCursor(x, y, z) == <<x, y, z>>

\* State of the scan before the first cell
ScanInit(chunk) ==
  [run_length_cursor |-> 0, run_length_voxel |-> BaseVoxel(chunk),
   data |-> <<>>, runs |-> <<>>, panicked |-> FALSE, peak |-> 0]

\* data.extend(voxel.encode_run_length(count)). `runs` records the call: its
\* voxel and count, the number of cells flushed before it (start), the length
\* of data before it (at) and the bytes it returned
Flush(st, voxel, count) ==
  IF ValidCount(count)
    THEN LET bytes == encode_run_length(voxel, count)
             last  == st.runs[Len(st.runs)]
             start == IF st.runs = <<>> THEN 0 ELSE last.start + last.count
         IN  [st EXCEPT !.data = st.data \o bytes,
                        !.runs = Append(st.runs, [voxel |-> voxel,
                                                  count |-> count,
                                                  start |-> start,
                                                  at    |-> Len(st.data),
                                                  bytes |-> bytes])]
    ELSE [st EXCEPT !.panicked = TRUE]

\* Mutant of ScanCell: the run that hits the cap is flushed without the
\* cell that hit it
ScanCell_cap(st, chunk, pos) ==
  LET grabbed_voxel == GrabVoxel(chunk, pos)
      run_length_voxel == IF st.run_length_cursor = 0
                            THEN grabbed_voxel ELSE st.run_length_voxel
  IN  IF Voxel_eq(grabbed_voxel, run_length_voxel)
        THEN IF st.run_length_cursor < 255
               THEN [st EXCEPT !.run_length_cursor = st.run_length_cursor + 1,
                               !.run_length_voxel = run_length_voxel]
               ELSE [Flush(st, grabbed_voxel, st.run_length_cursor)
                       EXCEPT !.run_length_cursor = 1,
                              !.run_length_voxel = run_length_voxel]
        ELSE [Flush(st, run_length_voxel, st.run_length_cursor)
                EXCEPT !.run_length_cursor = 1,
                       !.run_length_voxel = grabbed_voxel]

\* Mutant of ScanCell: the run is cut at 128 cells
ScanCell_half(st, chunk, pos) ==
  LET grabbed_voxel == GrabVoxel(chunk, pos)
      run_length_voxel == IF st.run_length_cursor = 0
                            THEN grabbed_voxel ELSE st.run_length_voxel
  IN  IF Voxel_eq(grabbed_voxel, run_length_voxel)
        THEN IF st.run_length_cursor < 127
               THEN [st EXCEPT !.run_length_cursor = st.run_length_cursor + 1,
                               !.run_length_voxel = run_length_voxel]
               ELSE [Flush(st, grabbed_voxel, st.run_length_cursor + 1)
                       EXCEPT !.run_length_cursor = 0,
                              !.run_length_voxel = run_length_voxel]
        ELSE [Flush(st, run_length_voxel, st.run_length_cursor)
                EXCEPT !.run_length_cursor = 1,
                       !.run_length_voxel = grabbed_voxel]

\* Body of the innermost loop of Chunk::encode for the cell at pos
ScanCell(st, chunk, pos) ==
  LET grabbed_voxel == GrabVoxel(chunk, pos)
      run_length_voxel == IF st.run_length_cursor = 0
                            THEN grabbed_voxel ELSE st.run_length_voxel
  IN  IF Voxel_eq(grabbed_voxel, run_length_voxel)
        THEN IF st.run_length_cursor < 255
               THEN [st EXCEPT !.run_length_cursor = st.run_length_cursor + 1,
                               !.run_length_voxel = run_length_voxel]
               ELSE [Flush(st, grabbed_voxel, st.run_length_cursor + 1)
                       EXCEPT !.run_length_cursor = 0,
                              !.run_length_voxel = run_length_voxel]
        ELSE [Flush(st, run_length_voxel, st.run_length_cursor)
                EXCEPT !.run_length_cursor = 1,
                       !.run_length_voxel = grabbed_voxel]

\* History: peak is the largest run_length_cursor any cell has left behind
AfterCell(st) == [st EXCEPT !.peak = Max(@, st.run_length_cursor)]

\* The leftover flush after the loops
ScanFinish(st) ==
  IF st.run_length_cursor > 0
    THEN Flush(st, st.run_length_voxel, st.run_length_cursor)
    ELSE st

RECURSIVE ScanX(_, _, _, _, _)
ScanX(st, chunk, y, z, x) ==
  IF x >= CHUNK_SIZE \/ st.panicked THEN st
  ELSE ScanX(AfterCell(ScanCell(st, chunk, PosCursor(x, y, z))),
             chunk, y, z, x + 1)

RECURSIVE ScanZ(_, _, _, _)
ScanZ(st, chunk, y, z) ==
  IF z >= CHUNK_SIZE \/ st.panicked THEN st
  ELSE ScanZ(ScanX(st, chunk, y, z, 0), chunk, y, z + 1)

RECURSIVE ScanY(_, _, _)
ScanY(st, chunk, y) ==
  IF y >= CHUNK_SIZE \/ st.panicked THEN st
  ELSE ScanY(ScanZ(st, chunk, y, 0), chunk, y + 1)

\* Chunk::encode: the scan state after the leftover flush
Chunk_scan(chunk) ==
  LET st == ScanY(ScanInit(chunk), chunk, 0)
  IN  IF st.panicked THEN st ELSE ScanFinish(st)

\* Chunk::encode
Chunk_encode(chunk) == Chunk_scan(chunk).data

----------------------------------------------------------------------------
(* SmoothGrid: the BTreeMap `world` is the sequence of its entries in key
   order *)

\* BTreeMap::insert: the entry replaces the one with an equal key, or is
\* placed after the entries with smaller keys
BTreeMap_insert(map, position, chunk) ==
  LET entry == [position |-> position, chunk |-> chunk]
  IN  IF \E i \in 1..Len(map) : map[i].position = position
        THEN [i \in 1..Len(map) |->
                IF map[i].position = position THEN entry ELSE map[i]]
        ELSE LET n == Cardinality({i \in 1..Len(map) :
                                     TerrainVec_lt(map[i].position, position)})
             IN  SubSeq(map, 1, n) \o <<entry>> \o SubSeq(map, n + 1, Len(map))

\* chunk_cursor = None
None == <<>>

\* Mutant of Axes: the delta is taken from the chunk to the cursor
Axes_reversed(position, cursor) ==
  <<WrappingSub(cursor[1], position[1]), WrappingSub(cursor[2], position[2]),
    WrappingSub(cursor[3], position[3])>>

\* The `axes` array: position - cursor, per component
Axes(position, cursor) ==
  <<WrappingSub(position[1], cursor[1]), WrappingSub(position[2], cursor[2]),
    WrappingSub(position[3], cursor[3])>>

\* A subtraction of `axes` or an axis.abs() overflows: a panic in a build
\* with overflow checks, the wrapped value in a build without
AxesOverflow(position, cursor) ==
  \E key \in 1..3 :
    \/ SubOverflows(position[key], cursor[key])
    \/ WrappingSub(position[key], cursor[key]) = I32_MIN

\* Mutant of AxisFiller: the arm 65536.. yields 2 as well
AxisFiller_wide(axis) == IF WrappingAbs(axis) < 256 THEN 3 ELSE 2

\* axis_filler: match axis.abs() { ..256 => 3, 256..65536 => 2, 65536.. => 1 }
AxisFiller(axis) ==
  IF WrappingAbs(axis) < 256 THEN 3
  ELSE IF WrappingAbs(axis) < 65536 THEN 2 ELSE 1

\* negative_padding after the loop over the axes
NegativePadding(axes) ==
  Min(Min(Min(3, AxisFiller(axes[1])), AxisFiller(axes[2])), AxisFiller(axes[3]))

\* negative_axes after the loop over the axes
NegativeAxes(axes) == [key \in 1..3 |-> IF axes[key] < 0 THEN 255 ELSE 0]

RECURSIVE AdjustAxis(_, _)
\* The `while axis_adjuster > 0` loop for one axis; digits[p] is
\* adjusted_axes[p - 1][key]
AdjustAxis(digits, axis_adjuster) ==
  IF axis_adjuster <= 0 THEN digits
  ELSE IF axis_adjuster < 256
    THEN AdjustAxis([digits EXCEPT ![3] = AsU8(axis_adjuster)],
                    axis_adjuster - axis_adjuster)
  ELSE IF axis_adjuster < 65536
    THEN LET offset == axis_adjuster \div 256
         IN  AdjustAxis([digits EXCEPT ![2] = AsU8(@ + AsU8(offset))],
                        axis_adjuster - offset * 256)
  ELSE LET offset == axis_adjuster \div 65536
       IN  AdjustAxis([digits EXCEPT ![1] = AsU8(@ + AsU8(offset))],
                      axis_adjuster - offset * 65536)

\* adjusted_axes after the loop over the axes: AdjustedAxes(axes)[p][key] is
\* adjusted_axes[p - 1][key]
AdjustedAxes(axes) ==
  [p \in 1..3 |->
     [key \in 1..3 |-> AdjustAxis(<<0, 0, 0>>, WrappingAbs(axes[key]))[p]]]

\* for _ in 0..negative_padding { data.extend(negative_axes.iter()) }
SignPlanes(axes) == Cycle(NegativeAxes(axes), NegativePadding(axes))

\* for i in 0..(4 - negative_padding) { data.extend(adjusted_axes[2 - i].iter()) }
MagnitudePlanes(axes) ==
  LET adjusted_axes == AdjustedAxes(axes)
      n == 4 - NegativePadding(axes)
  IN  [j \in 1..(3 * n) |->
         adjusted_axes[3 - ((j - 1) \div 3)][((j - 1) % 3) + 1]]

\* Mutant of NextCursor: only the first chunk sets the cursor
NextCursor_first(chunk_cursor, position) ==
  IF chunk_cursor = None THEN position ELSE chunk_cursor

\* chunk_cursor = Some(position)
NextCursor(chunk_cursor, position) == position

\* let cursor = match chunk_cursor { None => position, Some(c) => c }
Cursor(chunk_cursor, position) ==
  IF chunk_cursor = None THEN position ELSE chunk_cursor

\* The bytes written for a chunk before its voxel stream
PositionHeader(axes) == SignPlanes(axes) \o MagnitudePlanes(axes)

\* data.extend([0x01, CHUNK_SIZE.ilog2() as u8])
RECURSIVE ilog2(_)
ilog2(n) == IF n <= 1 THEN 0 ELSE 1 + ilog2(n \div 2)

\* Mutant of BlobHeader: the chunk size itself is written, not its log2
BlobHeader_size == <<1, AsU8(CHUNK_SIZE)>>

BlobHeader == <<1, AsU8(ilog2(CHUNK_SIZE))>>

----------------------------------------------------------------------------
(* State *)

VARIABLES
  \* SpecRun: one call of Voxel::encode_run_length
  r_voxel, r_count, r_out, r_pc,
  \* SpecChunk: Chunk::encode, layer by layer
  c_chunk, c_y, c_st, c_pc,
  \* Spec: a SmoothGrid, its write_chunk calls and its encode
  world,         \* the BTreeMap, as the sequence of its entries in key order
  stored,        \* history: the chunk last written at each position
  pc,            \* "build", "loop" (inside encode), "done", "panic"
  next_index,    \* the entry of world the `for` loop of encode visits next
  chunk_cursor,  \* None, or the position of the chunk emitted last
  data,          \* the byte vector of encode
  entries,       \* history: what each pass of the loop appended
  outputs,       \* history: what each encode call returned, and the world then
  \* SpecVoxel: one Voxel and the calls made on it
  v_voxel,       \* the Voxel
  v_call,        \* history: the last call, its arguments and the Voxel before
  v_pc,          \* "none" before the constructor returned, then "built"
  \* SpecCoord: one call of VoxelCoordinates::new or ChunkCoordinates::new
  k_in, k_out, k_pc

run_vars == <<r_voxel, r_count, r_out, r_pc>>
chunk_vars == <<c_chunk, c_y, c_st, c_pc>>
grid_vars ==
  <<world, stored, pc, next_index, chunk_cursor, data, entries, outputs>>
voxel_vars == <<v_voxel, v_call, v_pc>>
coord_vars == <<k_in, k_out, k_pc>>
vars == <<run_vars, chunk_vars, grid_vars, voxel_vars, coord_vars>>

RunIdle ==
  /\ r_voxel = Voxel_default /\ r_count = 0 /\ r_out = <<>> /\ r_pc = "idle"

ChunkIdle ==
  /\ c_chunk = Chunk_new /\ c_y = 0
  /\ c_st = ScanInit(Chunk_new) /\ c_pc = "idle"

GridIdle ==
  /\ world = <<>> /\ stored = <<>> /\ pc = "idle" /\ next_index = 1
  /\ chunk_cursor = None /\ data = <<>> /\ entries = <<>> /\ outputs = <<>>

VoxelIdle ==
  /\ v_voxel = Voxel_default /\ v_call = <<>> /\ v_pc = "idle"

CoordIdle ==
  /\ k_in = <<0, 0, 0>> /\ k_out = <<0, 0, 0>> /\ k_pc = "idle"

----------------------------------------------------------------------------
(* SpecRun: Voxel::encode_run_length on voxels built by the constructors *)

\* Occupancy arguments: below 0.0, 0.0, 1/256, 0.5, 255/256, 1.0, above 1.0
OccupancyInputs == {-64, 0, 1, 128, 255, 256, 384}

\* Voxels the public API can build
RunVoxels ==
  {Voxel_new_with_water(m, s, w) :
     m \in TerrainGridMaterial, s \in OccupancyInputs, w \in OccupancyInputs}
  \cup {Voxel_default}

\* u16 counts handed to encode_run_length, with both sides of the assert!
RunCounts == {0, 1, 2, 5, 255, 256, 257}

RunInit ==
  /\ r_voxel \in RunVoxels
  /\ r_count \in RunCounts
  /\ r_out = <<>>
  /\ r_pc = "start"
  /\ ChunkIdle
  /\ GridIdle
  /\ VoxelIdle
  /\ CoordIdle

\* encode_run_length returns
RunEncode ==
  /\ r_pc = "start"
  /\ ValidCount(r_count)
  /\ r_out' = encode_run_length(r_voxel, r_count)
  /\ r_pc' = "done"
  /\ UNCHANGED <<r_voxel, r_count, chunk_vars, grid_vars,
                 voxel_vars, coord_vars>>

\* the assert! panics
RunPanic ==
  /\ r_pc = "start"
  /\ ~ValidCount(r_count)
  /\ r_pc' = "panic"
  /\ UNCHANGED <<r_voxel, r_count, r_out, chunk_vars, grid_vars,
                 voxel_vars, coord_vars>>

RunNext == RunEncode \/ RunPanic

SpecRun == RunInit /\ [][RunNext]_vars

----------------------------------------------------------------------------
(* SpecVoxel: a Voxel built by a constructor and then changed by any sequence
   of set_occupancy and set_material calls *)

\* f32 occupancy arguments: the numbers of OccupancyInputs, and NaN
OccupancyArgs == OccupancyInputs \cup {NaN}

\* Material arguments: Air, Water and two solid materials
VoxelMaterials == {"Air", "Water", "Grass", "Rock"}

VoxelCall(op, material, solid, water) ==
  [op |-> op, material |-> material, solid |-> solid, water |-> water,
   before |-> v_voxel]

VoxelInit ==
  /\ v_voxel = Voxel_default
  /\ v_call = <<>>
  /\ v_pc = "none"
  /\ RunIdle
  /\ ChunkIdle
  /\ GridIdle
  /\ CoordIdle

\* Voxel::new(material, solid_occupancy)
VoxelNew ==
  /\ v_pc = "none"
  /\ \E m \in VoxelMaterials, s \in OccupancyArgs :
       /\ v_voxel' = Voxel_new(m, s)
       /\ v_call' = VoxelCall("new", m, s, 0)
  /\ v_pc' = "built"
  /\ UNCHANGED <<run_vars, chunk_vars, grid_vars, coord_vars>>

\* Voxel::new_with_water(material, solid_occupancy, water_occupancy)
VoxelNewWithWater ==
  /\ v_pc = "none"
  /\ \E m \in VoxelMaterials, s \in OccupancyArgs, w \in OccupancyArgs :
       /\ v_voxel' = Voxel_new_with_water(m, s, w)
       /\ v_call' = VoxelCall("new_with_water", m, s, w)
  /\ v_pc' = "built"
  /\ UNCHANGED <<run_vars, chunk_vars, grid_vars, coord_vars>>

\* voxel.set_occupancy(solid_occupancy, water_occupancy)
VoxelSetOccupancy ==
  /\ v_pc = "built"
  /\ \E s \in OccupancyArgs, w \in OccupancyArgs :
       /\ v_voxel' = set_occupancy(v_voxel, s, w)
       /\ v_call' = VoxelCall("set_occupancy", v_voxel.material, s, w)
  /\ UNCHANGED <<v_pc, run_vars, chunk_vars, grid_vars, coord_vars>>

\* voxel.set_material(material)
VoxelSetMaterial ==
  /\ v_pc = "built"
  /\ \E m \in VoxelMaterials :
       /\ v_voxel' = set_material(v_voxel, m)
       /\ v_call' = VoxelCall("set_material", m, v_voxel.solid_occupancy,
                              v_voxel.water_occupancy)
  /\ UNCHANGED <<v_pc, run_vars, chunk_vars, grid_vars, coord_vars>>

VoxelNext ==
  VoxelNew \/ VoxelNewWithWater \/ VoxelSetOccupancy \/ VoxelSetMaterial

SpecVoxel == VoxelInit /\ [][VoxelNext]_vars

----------------------------------------------------------------------------
(* SpecCoord: one call of VoxelCoordinates::new or ChunkCoordinates::new *)

\* i32 arguments: both ends of the i32 range, both sides of both clamps
CoordInputs ==
  {I32_MIN, -262145, -262144, -5, -1, 0, 17, 31, 32, 99, 262144, 262145,
   I32_MAX}

CoordInit ==
  /\ k_in \in CoordInputs \X CoordInputs \X CoordInputs
  /\ k_out = <<0, 0, 0>>
  /\ k_pc = "start"
  /\ RunIdle
  /\ ChunkIdle
  /\ GridIdle
  /\ VoxelIdle

\* VoxelCoordinates::new(x, y, z)
CoordVoxelNew ==
  /\ k_pc = "start"
  /\ k_out' = VoxelCoordinates_new(k_in[1], k_in[2], k_in[3])
  /\ k_pc' = "voxel"
  /\ UNCHANGED <<k_in, run_vars, chunk_vars, grid_vars, voxel_vars>>

\* ChunkCoordinates::new(x, y, z)
CoordChunkNew ==
  /\ k_pc = "start"
  /\ k_out' = ChunkCoordinates_new(k_in[1], k_in[2], k_in[3])
  /\ k_pc' = "chunk"
  /\ UNCHANGED <<k_in, run_vars, chunk_vars, grid_vars, voxel_vars>>

CoordNext == CoordVoxelNew \/ CoordChunkNew

SpecCoord == CoordInit /\ [][CoordNext]_vars

----------------------------------------------------------------------------
(* SpecChunk: Chunk::encode, one iteration of the outermost loop per step *)

\* The keys VoxelCoordinates::new(x, y, z) of n cells along x
RowKeys(x, y, z, n) == {VoxelCoordinates_new(i, y, z) : i \in x..(x + n - 1)}

\* The keys of n full rows z, z + 1, ... of layer y
RowsKeys(y, z, n) ==
  {VoxelCoordinates_new(i, y, j) : i \in 0..VOXEL_MAX, j \in z..(z + n - 1)}

\* One write_voxel call of the same voxel for every key of keys
write_voxels(chunk, keys, voxel) ==
  [chunk EXCEPT !.grid = [k \in keys |-> voxel] @@ chunk.grid]

\* No stored voxel
UniformChunk == Chunk_new

\* Stored voxels that equal the base voxel or lie outside the scanned cube
\* (a key built by VoxelCoordinates::from_vec3, which does not clamp)
HiddenChunk ==
  write_voxel(
    write_voxel(Chunk_new_with_base("Grass"),
                VoxelCoordinates_new(5, 5, 5), Voxel_new("Grass", 256)),
    VoxelCoordinates_from_vec3(<<199, 0, 0>>), Voxel_new("Rock", 128))

\* Base cells 0..255, a voxel at cell 256, base cells 257..513 (257 of them),
\* a voxel at cell 514, and a voxel in the last cell
BoundaryChunk ==
  write_voxel(
    write_voxel(
      write_voxel(Chunk_new_with_base("Slate"),
                  VoxelCoordinates_new(0, 0, 8), Voxel_new("Rock", 128)),
      VoxelCoordinates_new(2, 0, 16), Voxel_new("Sand", 256)),
    VoxelCoordinates_new(99, 99, 99), Voxel_new("Ice", 1))

\* Five shoreline voxels; five voxels whose water quantizes to zero; 40
\* shoreline voxels over two rows; 257 shoreline voxels over nine rows, the
\* first 256 of them followed by a 257th
ShoreChunk ==
  LET wet  == Voxel_new_with_water("Grass", 128, 128)
      damp == Voxel_new_with_water("Grass", 128, 1)
      mud  == Voxel_new_with_water("Mud", 255, 255)
      sea  == Voxel_new_with_water("Sand", 1, 64)
      c1 == write_voxels(Chunk_new, RowKeys(0, 0, 0, 5), wet)
      c2 == write_voxels(c1, RowKeys(8, 0, 0, 5), damp)
      c3 == write_voxels(c2, RowsKeys(0, 1, 1) \cup RowKeys(0, 0, 2, 8), mud)
      c4 == write_voxels(c3, RowsKeys(1, 4, 8) \cup RowKeys(0, 1, 12, 1), sea)
  IN  c4

\* The chunk of the test encode_default: 21 voxels, materials 2..=22
RECURSIVE TestVoxels(_, _, _)
TestVoxels(chunk, voxel, codes) ==
  IF codes = {} THEN chunk
  ELSE LET m == CHOOSE c \in codes : \A d \in codes : c <= d
           material == CHOOSE n \in TerrainGridMaterial : MaterialCode[n] = m
           v == set_material(voxel, material)
       IN  TestVoxels(write_voxel(chunk, VoxelCoordinates_new(m - 2, 0, 0), v),
                      v, codes \ {m})

TestChunk ==
  TestVoxels(Chunk_new_with_base("Air"),
             Voxel_new_with_water("Grass", 256, 128), 2..22)

\* Two neighbouring voxels with a NaN solid occupancy, after five base cells
NanChunk ==
  write_voxels(Chunk_new, RowKeys(5, 0, 0, 2), Voxel_new("Grass", NaN))

\* A voxel with a NaN solid occupancy in the first cell
NanFirstChunk ==
  write_voxel(Chunk_new, VoxelCoordinates_new(0, 0, 0), Voxel_new("Grass", NaN))

ChunkInputs ==
  {UniformChunk, HiddenChunk, BoundaryChunk, ShoreChunk, TestChunk,
   NanChunk, NanFirstChunk}

\* chunk.encode() of every chunk of ChunkInputs, computed once
ChunkScans == {[chunk |-> c, scan |-> Chunk_scan(c)] : c \in ChunkInputs}

\* chunk.encode(): Chunk_scan(chunk), looked up in ChunkScans where it can be
Chunk_scan_once(chunk) ==
  IF chunk \in ChunkInputs
    THEN (CHOOSE r \in ChunkScans : r.chunk = chunk).scan
    ELSE Chunk_scan(chunk)

ChunkInit ==
  /\ c_chunk \in ChunkInputs
  /\ c_y = 0
  /\ c_st = ScanInit(c_chunk)
  /\ c_pc = "scan"
  /\ RunIdle
  /\ GridIdle
  /\ VoxelIdle
  /\ CoordIdle

\* One pass through the body of `for y in 0..CHUNK_SIZE`: the 32 x 32 cells
\* of layer c_y
ChunkScanLayer ==
  /\ c_pc = "scan"
  /\ \E st \in {ScanZ(c_st, c_chunk, c_y, 0)} :
         /\ c_st' = st
         /\ c_y' = c_y + 1
         /\ c_pc' = IF st.panicked THEN "panic"
                    ELSE IF c_y + 1 = CHUNK_SIZE THEN "leftover"
                    ELSE "scan"
  /\ UNCHANGED <<c_chunk, run_vars, grid_vars,
                 voxel_vars, coord_vars>>

\* `if run_length_cursor > 0 { ... }` and the return of data
ChunkFinish ==
  /\ c_pc = "leftover"
  /\ \E st \in {ScanFinish(c_st)} :
         /\ c_st' = st
         /\ c_pc' = IF st.panicked THEN "panic" ELSE "done"
  /\ UNCHANGED <<c_chunk, c_y, run_vars, grid_vars,
                 voxel_vars, coord_vars>>

ChunkNext == ChunkScanLayer \/ ChunkFinish

SpecChunk == ChunkInit /\ [][ChunkNext]_vars

----------------------------------------------------------------------------
(* Spec: SmoothGrid::new, write_chunk calls, then encode, one pass of its
   loop over the chunks per step *)

\* Largest number of chunks the world holds
MaxChunks == 3

\* Largest number of encode calls on the world
MaxEncodes == 2

\* The arguments of the write_chunk calls: x, y, z are handed to
\* ChunkCoordinates::new
WriteInputs ==
  { [x |-> 1,      y |-> 0,      z |-> 0,   chunk |-> TestChunk],
    [x |-> 0,      y |-> 0,      z |-> 0,   chunk |-> TestChunk],
    [x |-> 0,      y |-> 0,      z |-> 0,   chunk |-> Chunk_new],
    [x |-> 0,      y |-> 0,      z |-> 1,   chunk |-> HiddenChunk],
    [x |-> -1,     y |-> 0,      z |-> 0,   chunk |-> Chunk_new],
    [x |-> 1,      y |-> 300,    z |-> -70, chunk |-> BoundaryChunk],
    [x |-> 999999, y |-> -70000, z |-> 300, chunk |-> ShoreChunk] }

Init ==
  /\ world = <<>>
  /\ stored = <<>>
  /\ pc = "build"
  /\ next_index = 1
  /\ chunk_cursor = None
  /\ data = <<>>
  /\ entries = <<>>
  /\ outputs = <<>>
  /\ RunIdle
  /\ ChunkIdle
  /\ VoxelIdle
  /\ CoordIdle

\* SmoothGrid::write_chunk(position, chunk)
WriteChunk(position, chunk) ==
  /\ (position \in DOMAIN stored \/ Len(world) < MaxChunks)
  /\ world' = BTreeMap_insert(world, position, chunk)
  /\ stored' = (position :> chunk) @@ stored

\* write_chunk(&ChunkCoordinates::new(x, y, z), chunk)
write_chunk ==
  /\ pc = "build"
  /\ \E w \in WriteInputs :
       WriteChunk(ChunkCoordinates_new(w.x, w.y, w.z), w.chunk)
  /\ UNCHANGED <<pc, next_index, chunk_cursor, data, entries, outputs,
                 run_vars, chunk_vars, voxel_vars, coord_vars>>

\* Mutant of EncodeBegin: the cursor of the call before is kept
EncodeBegin_keep ==
  /\ \/ pc = "build"
     \/ pc = "done" /\ Len(outputs) < MaxEncodes
  /\ data' = BlobHeader
  /\ next_index' = 1
  /\ entries' = <<>>
  /\ pc' = "loop"
  /\ UNCHANGED <<world, stored, outputs, chunk_cursor,
                 run_vars, chunk_vars, voxel_vars, coord_vars>>

\* SmoothGrid::encode up to its loop: the two header bytes, chunk_cursor =
\* None. The call is the first one, or follows a call that returned
EncodeBegin ==
  /\ \/ pc = "build"
     \/ pc = "done" /\ Len(outputs) < MaxEncodes
  /\ data' = BlobHeader
  /\ chunk_cursor' = None
  /\ next_index' = 1
  /\ entries' = <<>>
  /\ pc' = "loop"
  /\ UNCHANGED <<world, stored, outputs,
                 run_vars, chunk_vars, voxel_vars, coord_vars>>

\* One pass of `for (position, chunk) in &self.world`. Where the i32
\* arithmetic of the delta overflows, the pass panics (overflow checks on) or
\* goes on with the wrapped values (overflow checks off)
EncodeChunk ==
  /\ pc = "loop"
  /\ next_index <= Len(world)
  /\ LET position == world[next_index].position
         chunk == world[next_index].chunk
         cursor == Cursor(chunk_cursor, position)
         axes == Axes(position, cursor)
         header == PositionHeader(axes)
     IN  \E checks \in (IF AxesOverflow(position, cursor)
                          THEN BOOLEAN ELSE {FALSE}) :
           IF checks
             THEN /\ pc' = "panic"
                  /\ UNCHANGED <<data, entries, chunk_cursor, next_index>>
             ELSE \E scan \in {Chunk_scan_once(chunk)} :   \* chunk.encode()
                  /\ data' = data \o header \o scan.data
                  /\ entries' = Append(entries,
                                   [position |-> position,
                                    cursor |-> chunk_cursor,
                                    axes |-> axes, at |-> Len(data),
                                    header |-> header,
                                    body_len |-> Len(scan.data)])
                  /\ chunk_cursor' = NextCursor(chunk_cursor, position)
                  /\ next_index' = next_index + 1
                  /\ pc' = IF scan.panicked THEN "panic" ELSE "loop"
  /\ UNCHANGED <<world, stored, outputs,
                 run_vars, chunk_vars, voxel_vars, coord_vars>>

\* The loop is over: encode returns data
EncodeEnd ==
  /\ pc = "loop"
  /\ next_index > Len(world)
  /\ pc' = "done"
  /\ outputs' = Append(outputs, [world |-> world, data |-> data])
  /\ UNCHANGED <<world, stored, next_index, chunk_cursor, data, entries,
                 run_vars, chunk_vars, voxel_vars, coord_vars>>

Next == write_chunk \/ EncodeBegin \/ EncodeChunk \/ EncodeEnd

Spec == Init /\ [][Next]_vars

----------------------------------------------------------------------------
(* SpecWide: the same, the chunk positions built by
   ChunkCoordinates::from_vec3 *)

\* The arguments of the write_chunk calls: the Vector3 `at` is handed to
\* ChunkCoordinates::from_vec3
WideInputs ==
  { [at |-> <<F32_NEG_INFINITY, 0, 0>>, chunk |-> UniformChunk],
    [at |-> <<F32_INFINITY, 0, 0>>,     chunk |-> UniformChunk],
    [at |-> <<NaN, 1, -1>>,             chunk |-> UniformChunk],
    [at |-> <<-3, 5, 0>>,               chunk |-> HiddenChunk],
    [at |-> <<600001, 0, -600001>>,     chunk |-> BoundaryChunk],
    [at |-> <<0, 7, 0>>,                chunk |-> NanFirstChunk],
    [at |-> <<2, 0, 0>>,                chunk |-> NanChunk] }

\* write_chunk(&ChunkCoordinates::from_vec3(at), chunk)
write_chunk_from_vec3 ==
  /\ pc = "build"
  /\ \E w \in WideInputs :
       WriteChunk(ChunkCoordinates_from_vec3(w.at), w.chunk)
  /\ UNCHANGED <<pc, next_index, chunk_cursor, data, entries, outputs,
                 run_vars, chunk_vars, voxel_vars, coord_vars>>

NextWide == write_chunk_from_vec3 \/ EncodeBegin \/ EncodeChunk \/ EncodeEnd

SpecWide == Init /\ [][NextWide]_vars

----------------------------------------------------------------------------
(* Vocabulary of the properties *)

\* Number of cells of a chunk
Cells == CHUNK_SIZE * CHUNK_SIZE * CHUNK_SIZE

\* The voxel of the cell with scan index i = y*1024 + z*32 + x: the stored
\* voxel, or the implicit voxel {base_material, solid 1.0, water 0.0}
Cell(chunk, i) ==
  LET x == i % CHUNK_SIZE
      z == (i \div CHUNK_SIZE) % CHUNK_SIZE
      y == i \div (CHUNK_SIZE * CHUNK_SIZE)
  IN  IF <<x, y, z>> \in DOMAIN chunk.grid
        THEN chunk.grid[<<x, y, z>>]
        ELSE [solid_occupancy |-> OccUnit, water_occupancy |-> 0,
              material |-> chunk.base_material]

\* The two quantized occupancy bytes of a voxel
QSolid(v) == get_encode_data(v)[1]
QWater(v) == get_encode_data(v)[2]

\* The wire layout of one entry for count cells of voxel v: flag byte, solid
\* byte if fractional, then count - 1, or 0x00 and the water byte
EntryLayout(v, count) ==
  LET solidPresent == QSolid(v) # 0 /\ QSolid(v) # 255
      countBit == count > 1 \/ QWater(v) # 0
      flag == MaterialCode[v.material]
              + (IF solidPresent THEN 64 ELSE 0)
              + (IF countBit THEN 128 ELSE 0)
  IN  <<flag>>
      \o (IF solidPresent THEN <<QSolid(v)>> ELSE <<>>)
      \o (IF ~countBit THEN <<>>
          ELSE IF QWater(v) = 0 THEN <<count - 1>>
          ELSE <<0, QWater(v)>>)

\* bytes is n literal copies of unit
IsCopies(bytes, unit, n) ==
  /\ Len(bytes) = n * Len(unit)
  /\ \A i \in 1..Len(bytes) : bytes[i] = unit[((i - 1) % Len(unit)) + 1]

----------------------------------------------------------------------------
(* C4 *)

\* C4: for every voxel and every count in 1..256 outside the shoreline case
\* (quantized water 0, or count 1), encode_run_length returns the flag byte,
\* the solid byte iff it is neither 0x00 nor 0xFF, then, iff count > 1 or
\* the quantized water is nonzero, count - 1 (water 0) or 0x00 and the water
\* byte; the flag's low 6 bits are the material code (0..22), bit 6 is set
\* iff the solid byte is present, bit 7 iff count > 1 or water is nonzero.
C4_RunLengthLayout ==
  (r_pc = "done" /\ (QWater(r_voxel) = 0 \/ r_count = 1)) =>
    LET flag == r_out[1]
        solidPresent == QSolid(r_voxel) # 0 /\ QSolid(r_voxel) # 255
        countBit == r_count > 1 \/ QWater(r_voxel) # 0
    IN  /\ r_out = EntryLayout(r_voxel, r_count)
        /\ flag % 64 = MaterialCode[r_voxel.material]
        /\ MaterialCode[r_voxel.material] \in 0..22
        /\ BitSet(flag, 64) <=> solidPresent
        /\ BitSet(flag, 128) <=> countBit
        /\ Len(r_out) = 1 + (IF solidPresent THEN 1 ELSE 0)
                          + (IF ~countBit THEN 0
                             ELSE IF QWater(r_voxel) = 0 THEN 1 ELSE 2)

\* A run of 256 half-solid Grass voxels: flag 0x80|0x40|0x02, solid 127, 0xFF
C4_Witness ==
  /\ r_pc = "done"
  /\ r_count = 256
  /\ r_voxel = MkVoxel("Grass", 128, 0)
  /\ r_out = <<194, 127, 255>>

----------------------------------------------------------------------------
(* C3 *)

\* C3: the runs flushed by Chunk::encode cover exactly 32768 cells, and run
\* by run each covered index y*1024 + z*32 + x holds the voxel stored at
\* (x, y, z), or the implicit base voxel.
C3_RunsCoverCells ==
  c_pc = "done" =>
    LET runs == c_st.runs
    IN  /\ runs # <<>>
        /\ runs[1].start = 0
        /\ \A k \in 2..Len(runs) :
              runs[k].start = runs[k - 1].start + runs[k - 1].count
        /\ runs[Len(runs)].start + runs[Len(runs)].count = 32768
        /\ Cells = 32768
        /\ \A k \in 1..Len(runs) :
              \A i \in runs[k].start .. (runs[k].start + runs[k].count - 1) :
                Cell(c_chunk, i) = runs[k].voxel

\* The scan of the chunk with voxels at cells 256, 514 and 32767 is over and
\* its run at cell 256 is the stored half-solid Rock voxel
C3_Witness ==
  /\ c_pc = "done"
  /\ c_chunk = BoundaryChunk
  /\ \E k \in 1..Len(c_st.runs) :
        /\ c_st.runs[k].start = 256
        /\ c_st.runs[k].count = 1
        /\ c_st.runs[k].voxel = MkVoxel("Rock", 128, 0)

----------------------------------------------------------------------------
(* C5 *)

\* The single-voxel byte sequence of a shoreline voxel: flag with bit 7 set,
\* optional solid byte, 0x00, water byte
ShoreUnit(v) ==
  LET solidPresent == QSolid(v) # 0 /\ QSolid(v) # 255
  IN  <<MaterialCode[v.material] + 128 + (IF solidPresent THEN 64 ELSE 0)>>
      \o (IF solidPresent THEN <<QSolid(v)>> ELSE <<>>)
      \o <<0, QWater(v)>>

\* The bytes of run k are in data where the run was flushed
Emitted(st, k) ==
  LET run == st.runs[k]
  IN  /\ run.at + Len(run.bytes) <= Len(st.data)
      /\ \A i \in 1..Len(run.bytes) : st.data[run.at + i] = run.bytes[i]

\* C5 as stated: every flushed run of count > 1 of a voxel with water_occupancy > 0
\* is emitted as count literal copies of its single-voxel byte sequence.
C5_Original ==
  \A k \in 1..Len(c_st.runs) :
    LET run == c_st.runs[k]
    IN  (run.voxel.water_occupancy > 0 /\ run.count > 1) =>
          /\ IsCopies(run.bytes, ShoreUnit(run.voxel), run.count)
          /\ Emitted(c_st, k)

\* C5 (amended): every flushed run of count > 1 of a voxel whose quantized water
\* occupancy is nonzero (water_occupancy * 255 >= 1) is emitted as count
\* literal copies of its single-voxel byte sequence (flag with bit 7 set,
\* optional solid byte, 0x00, water byte), never as one compressed entry.
C5_ShorelineCopies ==
  \A k \in 1..Len(c_st.runs) :
    LET run == c_st.runs[k]
    IN  (QWater(run.voxel) # 0 /\ run.count > 1) =>
          /\ IsCopies(run.bytes, ShoreUnit(run.voxel), run.count)
          /\ run.bytes # EntryLayout(run.voxel, run.count)
          /\ Emitted(c_st, k)

\* Five consecutive cells of the half-solid, half-wet Grass voxel have been
\* flushed: 5 times 0xC2, 127, 0x00, 127
C5_Witness ==
  /\ c_chunk = ShoreChunk
  /\ Len(c_st.runs) >= 1
  /\ c_st.runs[1].voxel = MkVoxel("Grass", 128, 128)
  /\ c_st.runs[1].count = 5
  /\ SubSeq(c_st.data, 1, 20) =
       <<194, 127, 0, 127, 194, 127, 0, 127, 194, 127, 0, 127,
         194, 127, 0, 127, 194, 127, 0, 127>>

----------------------------------------------------------------------------
(* C6 *)

\* A maximal stretch of identical cells starts at scan index s
StretchStart(chunk, s) == s = 0 \/ Cell(chunk, s - 1) # Cell(chunk, s)

\* The n cells from s on are identical
SameCells(chunk, s, n) ==
  /\ s + n <= Cells
  /\ \A i \in s..(s + n - 1) : Cell(chunk, i) = Cell(chunk, s)

\* The stretch at s has exactly 256 cells and a different cell follows it
Stretch256(chunk, s) ==
  /\ StretchStart(chunk, s)
  /\ s + 256 < Cells
  /\ Cell(chunk, s + 256) # Cell(chunk, s)
  /\ SameCells(chunk, s, 256)

\* The stretch at s has exactly 257 cells
Stretch257(chunk, s) ==
  /\ StretchStart(chunk, s)
  /\ s + 257 <= Cells
  /\ (s + 257 = Cells \/ Cell(chunk, s + 257) # Cell(chunk, s))
  /\ SameCells(chunk, s, 257)

----------------------------------------------------------------------------
(* C7 *)

\* Every cell of the chunk is the base-material voxel
UniformCells(chunk) ==
  \A key \in DOMAIN chunk.grid :
    (\A a \in 1..3 : key[a] \in 0..(CHUNK_SIZE - 1)) =>
      chunk.grid[key] = [solid_occupancy |-> OccUnit, water_occupancy |-> 0,
                         material |-> chunk.base_material]

\* C7: a chunk whose every cell is the base-material voxel encodes to
\* exactly 32768/256 = 128 runs of count 256, the bytes being 128 times
\* [0x80 | base material code, 0xFF], with no trailing partial run.
C7_UniformChunk ==
  UniformCells(c_chunk) =>
    LET unit == <<128 + MaterialCode[c_chunk.base_material], 255>>
    IN  /\ \A k \in 1..Len(c_st.runs) :
              c_st.runs[k].count = 256 /\ c_st.runs[k].bytes = unit
        /\ c_pc \in {"leftover", "done"} =>
              /\ Len(c_st.runs) = 128
              /\ c_st.run_length_cursor = 0
              /\ IsCopies(c_st.data, unit, 128)

\* The chunk without stored voxels is encoded: 256 bytes, 0x80 0xFF ...
C7_Witness ==
  /\ c_pc = "done"
  /\ c_chunk.grid = <<>>
  /\ Len(c_st.runs) = 128
  /\ Len(c_st.data) = 256
  /\ SubSeq(c_st.data, 1, 4) = <<128, 255, 128, 255>>

----------------------------------------------------------------------------
(* C1 *)

\* Ascending lexicographic order of coordinates: x, then y, then z
LexLess(a, b) ==
  \/ a[1] < b[1]
  \/ a[1] = b[1] /\ a[2] < b[2]
  \/ a[1] = b[1] /\ a[2] = b[2] /\ a[3] < b[3]

\* C1: whatever the order of the write_chunk calls, the world lists the
\* stored coordinates, each once with the chunk last written there, in
\* ascending lexicographic (x, y, z) order, and encode emits the chunk
\* entries in that order; the blob thus depends on the stored mapping only.
C1_Ordering ==
  /\ Len(world) = Cardinality(DOMAIN stored)
  /\ \A i \in 1..Len(world) :
        /\ world[i].position \in DOMAIN stored
        /\ world[i].chunk = stored[world[i].position]
  /\ \A i \in 1..(Len(world) - 1) :
        LexLess(world[i].position, world[i + 1].position)
  /\ pc \in {"loop", "done"} =>
        /\ Len(entries) <= Len(world)
        /\ \A k \in 1..Len(entries) : entries[k].position = world[k].position
        /\ \A k \in 1..(Len(entries) - 1) :
              LexLess(entries[k].position, entries[k + 1].position)
  /\ pc = "done" => Len(entries) = Len(world)

\* The chunks written at (1,0,0), (0,0,0), (0,0,1) are emitted as (0,0,0),
\* (0,0,1), (1,0,0)
C1_Witness ==
  /\ pc = "done"
  /\ DOMAIN stored = {<<1, 0, 0>>, <<0, 0, 0>>, <<0, 0, 1>>}
  /\ Len(entries) = 3
  /\ <<entries[1].position, entries[2].position, entries[3].position>>
       = << <<0, 0, 0>>, <<0, 0, 1>>, <<1, 0, 0>> >>

----------------------------------------------------------------------------
(* C2 *)

\* C2: the output of encode starts with 0x01, 0x05, followed by exactly one
\* entry (position delta header, then the chunk's voxel byte stream) per
\* stored chunk and nothing else; without chunks it is exactly [0x01, 0x05].
C2_BlobLayout ==
  pc = "done" =>
    /\ Len(data) >= 2
    /\ SubSeq(data, 1, 2) = <<1, 5>>
    /\ Len(entries) = Cardinality(DOMAIN stored)
    /\ \A k \in 1..Len(entries) :
          LET e == entries[k]
          IN  \E body \in {Chunk_scan_once(stored[e.position]).data} :
              /\ e.at = IF k = 1 THEN 2
                         ELSE entries[k - 1].at + Len(entries[k - 1].header)
                              + entries[k - 1].body_len
              /\ e.body_len = Len(body)
              /\ e.at + Len(e.header) + e.body_len <= Len(data)
              /\ SubSeq(data, e.at + 1, e.at + Len(e.header)) = e.header
              /\ SubSeq(data, e.at + Len(e.header) + 1,
                        e.at + Len(e.header) + e.body_len) = body
    /\ Len(data) = IF entries = <<>> THEN 2
                   ELSE LET e == entries[Len(entries)]
                        IN  e.at + Len(e.header) + e.body_len
    /\ stored = <<>> => data = <<1, 5>>

\* A world of three chunks is encoded: two header bytes and three entries
C2_Witness ==
  /\ pc = "done"
  /\ Cardinality(DOMAIN stored) = 3
  /\ Len(entries) = 3
  /\ entries[1].at = 2
  /\ Len(data) > 2 + 3 * 256

----------------------------------------------------------------------------
(* C8 *)

\* Required byte width of an axis: 1 if |delta| < 256, 2 if < 65536, else 3
Width(delta) ==
  IF Abs(delta) < 256 THEN 1 ELSE IF Abs(delta) < 65536 THEN 2 ELSE 3

MinWidth(axes) == Min(Min(Width(axes[1]), Width(axes[2])), Width(axes[3]))
MaxWidth(axes) == Max(Max(Width(axes[1]), Width(axes[2])), Width(axes[3]))

\* The first n planes of header are sign planes: per axis 0xFF if the delta
\* is negative, else 0x00
SignPlanesAre(header, axes, n) ==
  /\ Len(header) >= 3 * n
  /\ \A j \in 1..(3 * n) :
        header[j] = IF axes[((j - 1) % 3) + 1] < 0 THEN 255 ELSE 0

----------------------------------------------------------------------------
(* C9 *)

\* The bytes of axis a in the magnitude planes of header, in written order
MagnitudeBytes(header, axes, a) ==
  LET P == 4 - MaxWidth(axes)
  IN  [p \in 1..(4 - P) |-> header[3 * (P + p - 1) + a]]

\* A byte string as a big-endian base-256 number (of at most 3 bytes)
BigEndian(bytes) ==
  IF Len(bytes) = 1 THEN bytes[1]
  ELSE IF Len(bytes) = 2 THEN bytes[1] * 256 + bytes[2]
  ELSE bytes[1] * 65536 + bytes[2] * 256 + bytes[3]

\* C9: for every chunk entry and axis, the magnitude planes are written most
\* significant first, every digit is below 256, and the axis's bytes of the
\* written magnitude planes read as a big-endian base-256 number give
\* |delta| (coordinates within [-262144, 262144]).
C9_BigEndianMagnitude ==
  \A k \in 1..Len(entries) :
    LET e == entries[k]
    IN  \A a \in 1..3 :
          /\ \A j \in 1..Len(e.header) : e.header[j] \in 0..255
          /\ BigEndian(MagnitudeBytes(e.header, e.axes, a)) = Abs(e.axes[a])

----------------------------------------------------------------------------
(* C10 *)

\* C10 as stated: in the world holding the chunks at (0,0,0) and (-1,0,0),
\* the header of the chunk at (-1,0,0) has sign-plane bytes 0xFF for x and
\* 0x00 for y and z, and the magnitude plane {1,0,0}.
C10_Original ==
  (pc = "done" /\ DOMAIN stored = {<<0, 0, 0>>, <<-1, 0, 0>>}) =>
    \E k \in 1..Len(entries) :
      /\ entries[k].position = <<-1, 0, 0>>
      /\ entries[k].header = <<255, 0, 0, 255, 0, 0, 255, 0, 0, 1, 0, 0>>

\* C10 (amended): encoding the world holding the chunks at (0,0,0) and
\* (-1,0,0) emits the chunk at (-1,0,0) first, with an all-zero header, and
\* then the chunk at (0,0,0) with delta (1,0,0): all its sign-plane bytes
\* are 0x00 and its magnitude plane is {1,0,0}.
C10_NegativeNeighbour ==
  (pc = "done" /\ DOMAIN stored = {<<0, 0, 0>>, <<-1, 0, 0>>}) =>
    /\ Len(entries) = 2
    /\ entries[1].position = <<-1, 0, 0>>
    /\ entries[1].header = <<0, 0, 0, 0, 0, 0, 0, 0, 0, 0, 0, 0>>
    /\ entries[2].position = <<0, 0, 0>>
    /\ entries[2].axes = <<1, 0, 0>>
    /\ entries[2].header = <<0, 0, 0, 0, 0, 0, 0, 0, 0, 1, 0, 0>>
    /\ SubSeq(data, entries[2].at + 1, entries[2].at + 12) = entries[2].header

\* That world is encoded
C10_Witness ==
  /\ pc = "done"
  /\ DOMAIN stored = {<<0, 0, 0>>, <<-1, 0, 0>>}
  /\ Len(entries) = 2
  /\ entries[2].cursor = <<-1, 0, 0>>


----------------------------------------------------------------------------
(* Voxel invariants *)

F32Lt(a, b) == F32Gt(b, a)

\* C11: after any sequence of Voxel::new, Voxel::new_with_water,
\* set_occupancy and set_material calls, water_occupancy > 0 implies
\* solid_occupancy < 1.0 or material Water, and solid_occupancy = 0 with
\* water_occupancy = 0 implies material Air. Violated: a NaN solid occupancy
\* passes every comparison of set_occupancy and is stored next to the water
\* occupancy
C11_OccupancyInvariant ==
  v_pc = "built" =>
    /\ F32Gt(v_voxel.water_occupancy, 0) =>
          \/ F32Lt(v_voxel.solid_occupancy, OccUnit)
          \/ v_voxel.material = "Water"
    /\ (F32Eq(v_voxel.solid_occupancy, 0) /\ F32Eq(v_voxel.water_occupancy, 0))
          => v_voxel.material = "Air"

\* The invariant of C11 on the voxels whose occupancies are numbers
OccupancyInvariantOnNumbers ==
  (v_pc = "built" /\ v_voxel.solid_occupancy # NaN
                  /\ v_voxel.water_occupancy # NaN)
    => C11_OccupancyInvariant

\* C12: every voxel produced by Voxel::new, Voxel::new_with_water,
\* set_occupancy or set_material whose material is Air has solid_occupancy
\* 1.0 and water_occupancy 0.0; stated here for the voxels whose occupancies
\* are numbers. Violated: Voxel::new(Air, s) with 0 < s < 1 keeps s
C12_AirIsFull ==
  (v_pc = "built" /\ v_voxel.material = "Air"
                  /\ v_voxel.solid_occupancy # NaN
                  /\ v_voxel.water_occupancy # NaN) =>
    /\ v_voxel.solid_occupancy = OccUnit
    /\ v_voxel.water_occupancy = 0

\* C18: the voxel after v.set_material(m) is Voxel::new_with_water(m, s, w)
\* for the occupancies (s, w) v stored before the call
C18_SetMaterialIsRebuild ==
  (v_pc = "built" /\ v_call.op = "set_material") =>
    v_voxel = set_occupancy(MkVoxel(v_call.material, 0, 0),
                            v_call.before.solid_occupancy,
                            v_call.before.water_occupancy)

\* A wet Grass voxel (solid 0.5, water 0.5) set to Air has become Water with
\* solid 0.5 and water 0
C18_Witness ==
  /\ v_pc = "built"
  /\ v_call.op = "set_material"
  /\ v_call.material = "Air"
  /\ v_call.before = MkVoxel("Grass", 128, 128)
  /\ v_voxel = MkVoxel("Water", 128, 0)

----------------------------------------------------------------------------
(* Coordinate constructors *)

----------------------------------------------------------------------------
(* Maximal runs *)

\* C19: of two consecutive runs flushed by Chunk::encode, the voxels are
\* equal only if the earlier run has count 256, and run_length_cursor is at
\* most 255 after every cell
C19_RunsMaximal ==
  /\ \A i \in 1..(Len(c_st.runs) - 1) :
        Voxel_eq(c_st.runs[i].voxel, c_st.runs[i + 1].voxel)
          => c_st.runs[i].count = 256
  /\ c_st.peak <= 255
  /\ c_st.run_length_cursor <= 255

\* The scan of BoundaryChunk is over: a run of 256 Slate cells is followed by
\* a run of one Slate cell, a Rock run is followed by a Slate run, and the
\* cursor has stood at 255
C19_Witness ==
  /\ c_pc = "done"
  /\ c_chunk = BoundaryChunk
  /\ c_st.peak = 255
  /\ \E i \in 1..(Len(c_st.runs) - 1) :
        /\ c_st.runs[i].voxel = c_st.runs[i + 1].voxel
        /\ c_st.runs[i].count = 256 /\ c_st.runs[i + 1].count = 1
  /\ \E i \in 1..(Len(c_st.runs) - 1) :
        /\ c_st.runs[i].voxel.material = "Rock"
        /\ c_st.runs[i + 1].voxel.material = "Slate"


----------------------------------------------------------------------------
(* Keys, totality, determinism, cursor *)

\* C14: every VoxelCoordinates key stored by write_voxel has its components
\* in [0, 31] and every ChunkCoordinates key stored by write_chunk has them
\* in [-262144, 262144], whichever constructor built the key. Violated: the
\* from_vec3 constructors do not clamp
C14_KeysClamped ==
  \A position \in DOMAIN stored :
    /\ \A a \in 1..3 : position[a] >= -262144 /\ position[a] <= 262144
    /\ \A key \in DOMAIN stored[position].grid :
          \A a \in 1..3 : key[a] \in 0..31

\* The occupancies of every stored voxel are numbers in [0, 1]
NumericWorld ==
  \A position \in DOMAIN stored :
    \A key \in DOMAIN stored[position].grid :
      LET voxel == stored[position].grid[key]
      IN  /\ voxel.solid_occupancy # NaN /\ voxel.water_occupancy # NaN
          /\ voxel.solid_occupancy \in 0..OccUnit
          /\ voxel.water_occupancy \in 0..OccUnit

\* On a world whose occupancies are numbers, no call of encode_run_length
\* gets a count outside [1, 256]
CountsValidOnNumbers ==
  NumericWorld =>
    \A position \in DOMAIN stored :
      \E scan \in {Chunk_scan_once(stored[position])} :
        /\ ~scan.panicked
        /\ \A i \in 1..Len(scan.runs) : scan.runs[i].count \in 1..256

\* C15: for a world built from voxels whose occupancies are numbers in
\* [0, 1], every count passed to encode_run_length is in [1, 256] and
\* SmoothGrid::encode returns. Violated: the counts are valid, but the i32
\* subtraction of two positions built by from_vec3 can overflow, which panics
\* where overflow checks are on
C15_EncodeTotal ==
  NumericWorld => (CountsValidOnNumbers /\ pc # "panic")

C17_CursorThreading ==
  pc \in {"loop", "done"} =>
    /\ chunk_cursor = None <=> entries = <<>>
    /\ entries # <<>> => chunk_cursor = entries[Len(entries)].position
    /\ Len(entries) = next_index - 1
    /\ \A k \in 1..Len(entries) :
          LET e == entries[k]
          IN  /\ e.position = world[k].position
              /\ k = 1 =>
                    /\ e.cursor = None
                    /\ e.axes = <<0, 0, 0>>
                    /\ e.header = <<0, 0, 0, 0, 0, 0, 0, 0, 0, 0, 0, 0>>
              /\ k > 1 =>
                    /\ e.cursor = entries[k - 1].position
                    /\ \A a \in 1..3 :
                          e.axes[a] = e.position[a] - entries[k - 1].position[a]

\* Three chunks are emitted, at (0,0,0), (1,0,0) and (1,300,-70): the third
\* delta is taken against the second chunk, not the first
C17_Witness ==
  /\ pc = "done"
  /\ Len(entries) = 3
  /\ entries[1].position = <<0, 0, 0>> /\ entries[1].cursor = None
  /\ entries[2].position = <<1, 0, 0>> /\ entries[2].axes = <<1, 0, 0>>
  /\ entries[3].position = <<1, 300, -70>>
  /\ entries[3].cursor = <<1, 0, 0>>
  /\ entries[3].axes = <<0, 300, -70>>
  /\ chunk_cursor = <<1, 300, -70>>

\* C20: for every chunk entry after the first the delta is lexicographically
\* positive (dx >= 0, dx = 0 implies dy >= 0, dx = dy = 0 implies dz > 0) and
\* the x byte of every sign plane is 0x00. Violated: between positions built
\* by from_vec3 the i32 subtraction can overflow; without overflow checks dx
\* wraps to a negative value
C20_DeltaLexPositive ==
  \A k \in 2..Len(entries) :
    LET e == entries[k]
        planes == (Len(e.header) \div 3) - (4 - NegativePadding(e.axes))
    IN  /\ e.axes[1] >= 0
        /\ e.axes[1] = 0 => e.axes[2] >= 0
        /\ (e.axes[1] = 0 /\ e.axes[2] = 0) => e.axes[3] > 0
        /\ \A p \in 1..planes : e.header[3 * (p - 1) + 1] = 0

====
